---- MODULE Spec2Model ----
(***************************************************************************)
(* Single Frame TimeLapse (single_frame_timelapse.py, Python 2).           *)
(*                                                                         *)
(* SFTL takes one vertical strip out of every frame of a directory of      *)
(* stills or of a video and concatenates the strips into one image.  The   *)
(* model follows one call of SFTL: the options, the frames the source      *)
(* holds, process_stills / process_video frame by frame, add_slice with    *)
(* its arithmetic, and save.                                               *)
(*                                                                         *)
(* Numbers.  The script is Python 2: "/" between two ints is floor         *)
(* division, and it is true division as soon as one operand is a float.    *)
(* len(frame_files) is an int; VideoCapture.get(CAP_PROP_FRAME_COUNT) is a *)
(* float holding a whole number of frames.  A float value is kept here as  *)
(* an exact fraction <<n, d>>; for the widths and counts within the bounds *)
(* below, the IEEE double results of the script floor to the same integers.*)
(* The options slice and stretch are fractions <<n, d>> as well, and None  *)
(* is the pair <<0, 0>>.                                                   *)
(*                                                                         *)
(* Images.  Only the shape and the origin of the pixels matter.  An image  *)
(* is [none, h, cols]: h stands for the axes numpy does not concatenate    *)
(* along (height and channel depth), cols is the sequence of its columns,  *)
(* each column named by the frame and the column of the frame it was read  *)
(* from.                                                                   *)
(***************************************************************************)
EXTENDS Integers, Sequences, FiniteSets, TLC

\* Bounds of the model.
MaxWidth == 4
MaxFrames == 4

None == <<0, 0>>

\* Values of the options that the runs are drawn from.
SliceLocations == {None, <<0, 1>>, <<1, 2>>, <<1, 1>>}
MirrorMethods == {"None", "half", "full"}
TimeStretches == {None, <<1, 2>>, <<3, 2>>, <<2, 1>>}
Inputs == {"stills", "video"}
Shapes == {1, 2}

VARIABLES
    kwargs,       \* the options of the call: input, slice, mirror, stretch, fixedwidth
    frames,       \* the frames the source holds, in order
    frame_count,  \* [n, float]: the count the source reported
    i,            \* index of the next frame
    TLP,          \* the mosaic built so far
    video_input,  \* the VideoCapture: "unopened", "held", "closed", "released"
    pc,           \* "main", "stills", "video", "done", "raised"
    raised,       \* the exception that ended the run, "None" if none
    sink,         \* [received, img]: what cv2.imwrite was handed
    last          \* the last add_slice call: its locals

vars == <<kwargs, frames, frame_count, i, TLP, video_input, pc, raised, sink, last>>

Max(a, b) == IF a >= b THEN a ELSE b
Min(a, b) == IF a <= b THEN a ELSE b

\* int(x) of a non-negative fraction x = <<n, d>>, d > 0
int(x) == x[1] \div x[2]

\* x < 1 for a fraction x
LessThanOne(x) == x[1] < x[2]

NoImage == [none |-> TRUE, h |-> 0, cols |-> <<>>]

Reverse(s) == [j \in 1..Len(s) |-> s[Len(s) + 1 - j]]

\* cv2.flip(img, 1)
flip(img) == [img EXCEPT !.cols = Reverse(img.cols)]

\* np.concatenate((img1, img2), axis=1): the other axes must agree, for an
\* empty img2 too; None is no array.
add(img1, img2) ==
    IF img1.none \/ img2.none \/ img1.h # img2.h
    THEN [raised |-> "ValueError", img |-> img1]
    ELSE [raised |-> "None", img |-> [none |-> FALSE, h |-> img1.h, cols |-> img1.cols \o img2.cols]]

\* FrameSlice reading the columns left .. right - 1 without clipping them to the frame
FrameSlice_Unclipped(frame, left, right) ==
    [none |-> FALSE, h |-> frame.h,
     cols |-> [c \in 1..(right - left) |-> <<frame.id, left + c - 1>>]]

\* frame[:, left:right] for 0 <= left <= right: numpy clips both ends to the width
FrameSlice(frame, left, right) ==
    [none |-> FALSE, h |-> frame.h,
     cols |-> [c \in 1..(Min(right, frame.w) - Min(left, frame.w)) |->
                  <<frame.id, Min(left, frame.w) + c - 1>>]]

\* ImgWidth halving the width for every mirror method
ImgWidth_AnyMirror(kw, w) == IF kw.mirror # "None" THEN w \div 2 ELSE w

\* if mirror == 'half': img_width /= 2     (int / int)
ImgWidth(kw, w) == IF kw.mirror = "half" THEN w \div 2 ELSE w

\* img_width / frame_count, frame_count.n > 0
SliceWidthFloat(img_width, fc) ==
    IF fc.float THEN <<img_width, fc.n>> ELSE <<img_width \div fc.n, 1>>

\* SliceWidth without the clamp to one pixel
SliceWidth_NoClamp(swf) == int(swf)

\* slice_width = int(slice_width_float); if slice_width < 1: slice_width = 1
SliceWidth(swf) == Max(1, int(swf))

\* Left without the correction of the drift: slice_width * i in scan mode
Left_NoDriftCorrection(kw, w, slice_width, swf, idx) ==
    IF kw.slice # None
    THEN (kw.slice[1] * w) \div kw.slice[2]
    ELSE slice_width * idx

\* left: int(slicelocation * img_width) with the slice option, else
\* slice_width * i, lowered to int(slice_width_float * i) when it is ahead of it
Left(kw, w, slice_width, swf, idx) ==
    IF kw.slice # None
    THEN (kw.slice[1] * w) \div kw.slice[2]
    ELSE IF slice_width * idx * swf[2] > swf[1] * idx
         THEN (swf[1] * idx) \div swf[2]
         ELSE slice_width * idx

\* right, by the stretch option
Right(kw, left, slice_width) ==
    IF kw.stretch # None /\ LessThanOne(kw.stretch)
    THEN left + Max(1, (slice_width * kw.stretch[1]) \div kw.stretch[2])
    ELSE IF kw.stretch # None
         THEN left + (slice_width * kw.stretch[1]) \div kw.stretch[2]
         ELSE left + slice_width

\* right = left + int(new_slice_width * add_stretch),
\* add_stretch = img_width / (new_slice_width * frame_count)
Expand(left, new_slice_width, img_width, fc) ==
    IF fc.float
    THEN left + (new_slice_width * img_width) \div (new_slice_width * fc.n)
    ELSE left + new_slice_width * (img_width \div (new_slice_width * fc.n))

NoCall ==
    [called |-> FALSE, raised |-> "None", i |-> 0, w |-> 0, img_width |-> 0,
     swf |-> <<0, 1>>, slice_width |-> 0, left |-> 0, right |-> 0,
     branch |-> "none", k |-> 0, skipped |-> FALSE, before |-> 0, after |-> 0]

Width(img) == Len(img.cols)

add_slice(kw, tlp, fc, idx, frame) ==
    LET w == frame.w
        img_width == ImgWidth(kw, w)
        call == [NoCall EXCEPT !.called = TRUE, !.i = idx, !.w = w, !.img_width = img_width]
    IN
    IF fc.n = 0
    THEN [TLP |-> tlp, call |-> [call EXCEPT !.raised = "ZeroDivisionError"]]
    ELSE
    LET swf == SliceWidthFloat(img_width, fc)
        slice_width == SliceWidth(swf)
        left == Left(kw, w, slice_width, swf, idx)
        right == Right(kw, left, slice_width)
        tlp0 == IF idx = 0 THEN FrameSlice(frame, 0, 0) ELSE tlp
        new_slice_width == right - left
        final_width == new_slice_width * fc.n
        geo == [call EXCEPT !.swf = swf, !.slice_width = slice_width, !.left = left,
                            !.right = right, !.before = Width(tlp0), !.after = Width(tlp0)]
    IN
    IF final_width > img_width /\ kw.fixedwidth /\ new_slice_width = 1
    THEN IF img_width = 0
         THEN [TLP |-> tlp0,
               call |-> [geo EXCEPT !.branch = "decimate", !.raised = "ZeroDivisionError"]]
         ELSE LET k == fc.n \div img_width IN
              IF k = 0
              THEN [TLP |-> tlp0,
                    call |-> [geo EXCEPT !.branch = "decimate", !.k = k,
                                         !.raised = "ZeroDivisionError"]]
              ELSE IF idx % k # 0
              THEN [TLP |-> tlp0,
                    call |-> [geo EXCEPT !.branch = "decimate", !.k = k, !.skipped = TRUE]]
              ELSE LET r == add(tlp0, FrameSlice(frame, left, right)) IN
                   [TLP |-> r.img,
                    call |-> [geo EXCEPT !.branch = "decimate", !.k = k,
                                         !.raised = r.raised, !.after = Width(r.img)]]
    ELSE IF kw.fixedwidth /\ new_slice_width * fc.n = 0
    THEN [TLP |-> tlp0,
          call |-> [geo EXCEPT !.branch = "expand", !.raised = "ZeroDivisionError"]]
    ELSE
    LET right2 == IF kw.fixedwidth THEN Expand(left, new_slice_width, img_width, fc) ELSE right
        r == add(tlp0, FrameSlice(frame, left, right2))
    IN [TLP |-> r.img,
        call |-> [geo EXCEPT !.branch = IF kw.fixedwidth THEN "expand" ELSE "none",
                             !.right = right2, !.raised = r.raised, !.after = Width(r.img)]]

\* save: the mirror copy, then cv2.imwrite
save(kw, tlp) ==
    IF kw.mirror # "None"
    THEN IF tlp.none
         THEN [raised |-> "cv2.error", sink |-> [received |-> FALSE, img |-> NoImage]]
         ELSE [raised |-> "None", sink |-> [received |-> TRUE, img |-> add(tlp, flip(tlp)).img]]
    ELSE [raised |-> "None", sink |-> [received |-> TRUE, img |-> tlp]]

Frame(id, h, w) == [id |-> id, h |-> h, w |-> w]

\* The frame sequences: n frames of one width; the first has shape 1, a later
\* one has any of the shapes.
FrameSequences ==
    UNION { { [j \in 1..n |-> Frame(j - 1, IF j = 1 THEN 1 ELSE hs[j], w)] :
                hs \in [1..n -> Shapes] , w \in 1..MaxWidth } : n \in 0..MaxFrames }

Init ==
    /\ kwargs \in [input : Inputs, slice : SliceLocations, mirror : MirrorMethods,
                   stretch : TimeStretches, fixedwidth : BOOLEAN]
    /\ frames \in FrameSequences
    /\ frame_count = [n |-> 0, float |-> FALSE]
    /\ i = 0
    /\ TLP = NoImage
    /\ video_input = "unopened"
    /\ pc = "main"
    /\ raised = "None"
    /\ sink = [received |-> FALSE, img |-> NoImage]
    /\ last = NoCall

\* process_stills, up to the loop
ProcessStillsBegin ==
    /\ pc = "main" /\ kwargs.input = "stills"
    /\ frame_count' = [n |-> Len(frames), float |-> FALSE]
    /\ pc' = "stills"
    /\ UNCHANGED <<kwargs, frames, i, TLP, video_input, raised, sink, last>>

\* one frame of a loop: TLP = add_slice(TLP, frame_count, i, frame)
LoopBody ==
    LET r == add_slice(kwargs, TLP, frame_count, i, frames[i + 1]) IN
    /\ last' = r.call
    /\ IF r.call.raised # "None"
       THEN /\ pc' = "raised" /\ raised' = r.call.raised /\ i' = i /\ TLP' = TLP
       ELSE /\ pc' = pc /\ raised' = raised /\ i' = i + 1 /\ TLP' = r.TLP

ProcessStillsFrame ==
    /\ pc = "stills" /\ i < Len(frames)
    /\ LoopBody
    /\ UNCHANGED <<kwargs, frames, frame_count, video_input, sink>>

Finish ==
    LET r == save(kwargs, TLP) IN
    /\ sink' = r.sink
    /\ raised' = r.raised
    /\ pc' = IF r.raised = "None" THEN "done" ELSE "raised"

ProcessStillsSave ==
    /\ pc = "stills" /\ i = Len(frames)
    /\ Finish
    /\ UNCHANGED <<kwargs, frames, frame_count, i, TLP, video_input, last>>

\* process_video, up to the loop: cv2.VideoCapture(video) and the count it
\* reports, a float; a capture that could not be opened has no frames and
\* reports none
ProcessVideoBegin ==
    /\ pc = "main" /\ kwargs.input = "video"
    /\ \E n \in 0..MaxFrames, opened \in BOOLEAN :
          /\ opened \/ (n = 0 /\ frames = <<>>)
          /\ frame_count' = [n |-> n, float |-> TRUE]
          /\ video_input' = IF opened THEN "held" ELSE "closed"
    /\ pc' = "video"
    /\ UNCHANGED <<kwargs, frames, i, TLP, raised, sink, last>>

\* ret, frame = video_input.read() with ret true
ProcessVideoFrame ==
    /\ pc = "video" /\ video_input = "held" /\ i < Len(frames)
    /\ LoopBody
    /\ UNCHANGED <<kwargs, frames, frame_count, video_input, sink>>

\* isOpened() false, or ret false at the end of the stream or on a failed
\* read (the frames after it are then not part of the sequence `frames`):
\* video_input.release(), save(TLP)
ProcessVideoSave ==
    /\ pc = "video" /\ (video_input = "closed" \/ i = Len(frames))
    /\ video_input \in {"held", "closed"}
    /\ video_input' = "released"
    /\ Finish
    /\ UNCHANGED <<kwargs, frames, frame_count, i, TLP, last>>

Next ==
    \/ ProcessStillsBegin
    \/ ProcessStillsFrame
    \/ ProcessStillsSave
    \/ ProcessVideoBegin
    \/ ProcessVideoFrame
    \/ ProcessVideoSave

Spec == Init /\ [][Next]_vars

(***************************************************************************)
(* Properties                                                              *)
(***************************************************************************)

\* the mosaic after the first n frames of fs, when no call raised
RECURSIVE Accumulate(_, _, _, _)
Accumulate(kw, fc, fs, n) ==
    IF n = 0 THEN NoImage
    ELSE add_slice(kw, Accumulate(kw, fc, fs, n - 1), fc, n - 1, fs[n]).TLP

\* all frames have the shape of the first
SameShape == \A j \in 1..Len(frames) : frames[j].h = frames[1].h

\* the source reported the number of frames it holds
ExactCount == pc # "main" /\ frame_count.n = Len(frames)

Ended == pc \in {"done", "raised"}

\* add_slice got as far as computing left and right
Computed == last.called /\ last.raised # "ZeroDivisionError"

\* the effective width as the design states it, rounded up: W, or W/2 for mirror = half
CeilEffectiveWidth == IF kwargs.mirror = "half" THEN (last.w + 1) \div 2 ELSE last.w

\* C1: for every frame index i in [0, N) and every configuration, the bounds
\* add_slice computes for a frame that is not skipped satisfy right > left.
C1_StripNeverEmpty ==
    (Computed /\ ~last.skipped /\ last.i < frame_count.n) => last.right > last.left

\* C2: whenever the fixed-width decimation branch is taken, the divisor
\* k = floor(frame_count / effective_width) is computed and is >= 1.
C2_DecimationDivisorPositive ==
    (last.called /\ last.branch = "decimate") =>
        (last.raised # "ZeroDivisionError" /\ last.k >= 1)

\* the per-frame slice_width of C3: max(1, floor(W / N))
BaselineSliceWidth == Max(1, frames[1].w \div Len(frames))

PlainRunDone ==
    /\ pc = "done" /\ Len(frames) >= 1 /\ ExactCount
    /\ kwargs.mirror = "None" /\ kwargs.stretch = None /\ ~kwargs.fixedwidth

\* C3 (as claimed): with mirror, stretch and fixed_width unset and slice_location
\* absent or anywhere in [0,1], the mosaic of N frames of width W is
\* N * max(1, floor(W / N)) wide.
C3_WidthIsSumOfSliceWidths ==
    PlainRunDone => Width(sink.img) = Len(frames) * BaselineSliceWidth

\* the strip [left, left + slice_width) of the fixed slice location lies inside the frame
SliceFits ==
    \/ kwargs.slice = None
    \/ (kwargs.slice[1] * frames[1].w) \div kwargs.slice[2] + BaselineSliceWidth <= frames[1].w

\* C3 (amended): the same, for slice_location absent or with
\* floor(slice_location * W) + slice_width <= W.
C3_WidthIsSumOfSliceWidthsInFrame ==
    (PlainRunDone /\ SliceFits) => Width(sink.img) = Len(frames) * BaselineSliceWidth

\* a finished plain run at a fixed slice location, several clamped or floored strips
C3_Witness ==
    /\ PlainRunDone /\ SliceFits /\ kwargs.slice # None
    /\ Len(frames) >= 2 /\ Width(sink.img) = 4

\* C4: the mosaic saved with mirror = full is twice as wide as the one of the
\* same run with mirror = none, its first half is that mosaic, and its second
\* half is the first half read backwards.
C4_FullMirrorDoubles ==
    (pc = "done" /\ kwargs.mirror = "full") =>
        LET plain == Accumulate([kwargs EXCEPT !.mirror = "None"], frame_count, frames, i)
            w == Width(plain)
        IN /\ Width(sink.img) = 2 * w
           /\ SubSeq(sink.img.cols, 1, w) = plain.cols
           /\ \A j \in 1..w : sink.img.cols[w + j] = sink.img.cols[w + 1 - j]

\* a saved full-mirror mosaic of several distinct columns
C4_Witness ==
    /\ pc = "done" /\ kwargs.mirror = "full" /\ Width(sink.img) >= 6
    /\ sink.img.cols[1] # sink.img.cols[2]

\* C5: with fixed_width, no stretch and N > effective_width, the frames in the
\* mosaic are those with i mod k = 0, k = floor(N / effective_width), and the
\* mosaic before the mirror copy is at least effective_width and less than
\* 2 * effective_width wide.
C5_DecimationBoundsWidth ==
    (/\ Ended /\ Len(frames) >= 1 /\ ExactCount /\ SameShape
     /\ kwargs.fixedwidth /\ kwargs.stretch = None
     /\ Len(frames) > ImgWidth(kwargs, frames[1].w)) =>
        LET ew == ImgWidth(kwargs, frames[1].w) IN
        /\ ew >= 1
        /\ {TLP.cols[c][1] : c \in 1..Width(TLP)} =
               {j \in 0..(Len(frames) - 1) : j % (Len(frames) \div ew) = 0}
        /\ ew <= Width(TLP) /\ Width(TLP) < 2 * ew

\* C6: once process_video has opened the video, no run ends with the handle held.
C6_HandleReleased == Ended => video_input # "held"

\* C7: a frame after the first whose height or channel depth differs from the
\* first frame's fails the run at that frame: the loop never gets past it
\* (i counts the frames add_slice returned for), and the sink receives nothing.
C7_MismatchAborts ==
    \A j \in 2..Len(frames) :
        frames[j].h # frames[1].h => (i < j /\ ~sink.received)

\* C8: with zero frames (frame_count = 0) the run divides nothing by
\* frame_count and the sink receives an empty, zero-width mosaic.
C8_EmptyInputZeroWidth ==
    (Ended /\ Len(frames) = 0 /\ frame_count.n = 0) =>
        /\ raised # "ZeroDivisionError"
        /\ sink.received /\ ~sink.img.none /\ Width(sink.img) = 0

\* an add_slice call that returned, on frames of one size
Returned == last.called /\ last.raised = "None" /\ SameShape

\* C9 (as claimed): the mosaic never gets narrower, a skipped frame leaves its
\* width unchanged, an included frame adds exactly right - left.
C9_WidthGrowsByRightMinusLeft ==
    Returned =>
        /\ Width(TLP) = last.after /\ last.after >= last.before
        /\ last.skipped => last.after = last.before
        /\ ~last.skipped => last.after = last.before + (last.right - last.left)

\* C9 (amended): an included frame adds the columns of [left, right) that the
\* frame has: min(right, W) - min(left, W).
C9_WidthGrowsByColumnsInFrame ==
    Returned =>
        /\ Width(TLP) = last.after /\ last.after >= last.before
        /\ last.skipped => last.after = last.before
        /\ ~last.skipped =>
              last.after = last.before + (Min(last.right, last.w) - Min(last.left, last.w))

\* a later frame whose strip starts inside the frame and ends beyond it
C9_Witness ==
    /\ Returned /\ ~last.skipped /\ last.i >= 1 /\ last.before >= 1
    /\ last.left < last.w /\ last.right > last.w

\* C10: in scan mode with no stretch and no fixed_width, for i in [0, N):
\* 0 <= left <= slice_width_float * i and right <= ceil(effective_width).
C10_ScanStaysInFrame ==
    (/\ Computed /\ last.i < frame_count.n
     /\ kwargs.slice = None /\ kwargs.stretch = None /\ ~kwargs.fixedwidth) =>
        /\ 0 <= last.left
        /\ last.left * last.swf[2] <= last.swf[1] * last.i
        /\ last.right <= CeilEffectiveWidth

\* a half-mirror scan in which left was lowered to int(slice_width_float * i)
C10_Witness ==
    /\ Computed /\ last.i < frame_count.n
    /\ kwargs.slice = None /\ kwargs.stretch = None /\ ~kwargs.fixedwidth
    /\ kwargs.mirror = "half" /\ last.i >= 2
    /\ last.left < last.slice_width * last.i
====
